---- MODULE Spec2Model ----
(***************************************************************************)
(* A model of the outfit recommender: the user store and the web handler   *)
(* of src/app.py, and the recommendation engine of src/industry4.py        *)
(* (prompt interpretation, colour matching, catalog filtering and the      *)
(* outfit composition with its fallback tiers).                            *)
(*                                                                         *)
(* Python strings are TLA+ strings; TLC evaluates Len, SubSeq and \o on    *)
(* them, so the prompt is parsed character by character as the regular     *)
(* expressions and the substring tests of the source do.  Python lists are *)
(* sequences.  A call of random.choice or random.shuffle is a              *)
(* nondeterministic choice: the engine is modelled by the SET of results   *)
(* the call can produce, and the action picks one of them.                 *)
(***************************************************************************)
EXTENDS Integers, Sequences, FiniteSets, TLC

(***************************************************************************)
(* Strings                                                                 *)
(***************************************************************************)
Char(s, i) == SubSeq(s, i, i)

\* s[i-1 : i-1+len(sub)] == sub
StartsAt(s, i, sub) ==
  /\ i >= 1
  /\ i + Len(sub) - 1 <= Len(s)
  /\ SubSeq(s, i, i + Len(sub) - 1) = sub

\* Python's `sub in s`
Contains(s, sub) == \E i \in 1..(Len(s) - Len(sub) + 1) : StartsAt(s, i, sub)

RECURSIVE ReplaceFrom(_, _, _, _)
ReplaceFrom(s, i, old, new) ==
  IF i > Len(s) THEN ""
  ELSE IF StartsAt(s, i, old)
       THEN new \o ReplaceFrom(s, i + Len(old), old, new)
       ELSE Char(s, i) \o ReplaceFrom(s, i + 1, old, new)

\* Python's s.replace(old, new): leftmost, non-overlapping occurrences
Replace(s, old, new) == ReplaceFrom(s, 1, old, new)

UpperLetters == "ABCDEFGHIJKLMNOPQRSTUVWXYZ"
LowerLetters == "abcdefghijklmnopqrstuvwxyz"

LowerChar(c) ==
  IF \E k \in 1..Len(UpperLetters) : Char(UpperLetters, k) = c
  THEN Char(LowerLetters, CHOOSE k \in 1..Len(UpperLetters) : Char(UpperLetters, k) = c)
  ELSE c

RECURSIVE LowerFrom(_, _)
LowerFrom(s, i) ==
  IF i > Len(s) THEN "" ELSE LowerChar(Char(s, i)) \o LowerFrom(s, i + 1)

\* Python's s.lower()
Lower(s) == LowerFrom(s, 1)

\* the regular expression classes \w and \s, over the characters of the prompts
WordChars == {Char(LowerLetters, k) : k \in 1..Len(LowerLetters)}
               \cup {Char(UpperLetters, k) : k \in 1..Len(UpperLetters)}
               \cup {"0", "1", "2", "3", "4", "5", "6", "7", "8", "9", "_"}
SpaceChars == {" ", "\t", "\n", "\r"}
IsWordChar(c) == c \in WordChars

\* \b between positions i-1 and i: exactly one side is a word character
WordBoundary(s, i) ==
  LET before == i > 1 /\ i - 1 <= Len(s) /\ IsWordChar(Char(s, i - 1))
      after  == i >= 1 /\ i <= Len(s) /\ IsWordChar(Char(s, i))
  IN  before # after

\* the end (last index) of the greedy run of characters of a class starting at i;
\* i - 1 when the run is empty
RECURSIVE RunEnd(_, _, _)
RunEnd(s, i, class) ==
  IF i <= Len(s) /\ Char(s, i) \in class THEN RunEnd(s, i + 1, class) ELSE i - 1

(***************************************************************************)
(* re.findall(r'\b(?:k1|k2|...)\s+(\w+)', prompt): the words captured, as  *)
(* the source only uses them through set(...).  A match at i needs \b at   *)
(* i, a keyword, at least one blank and at least one word character; the   *)
(* scan resumes after the captured word.                                   *)
(***************************************************************************)
KeywordMatchEnd(s, i, kw) ==
  \* 0 when `kw\s+\w+` does not match at i, else the index of the last
  \* character of the captured word
  IF ~StartsAt(s, i, kw) THEN 0
  ELSE LET sp == RunEnd(s, i + Len(kw), SpaceChars)
           w  == RunEnd(s, sp + 1, WordChars)
       IN  IF sp >= i + Len(kw) /\ w >= sp + 1 THEN w ELSE 0

RECURSIVE FirstKeywordMatch(_, _, _, _)
FirstKeywordMatch(s, i, kws, k) ==
  \* alternatives are tried in the order they are written
  IF k > Len(kws) THEN 0
  ELSE IF KeywordMatchEnd(s, i, kws[k]) > 0 THEN k
  ELSE FirstKeywordMatch(s, i, kws, k + 1)

RECURSIVE FindWordsAfter(_, _, _)
FindWordsAfter(s, i, kws) ==
  IF i > Len(s) THEN {}
  ELSE LET k == IF WordBoundary(s, i) THEN FirstKeywordMatch(s, i, kws, 1) ELSE 0
       IN  IF k = 0 THEN FindWordsAfter(s, i + 1, kws)
           ELSE LET e  == KeywordMatchEnd(s, i, kws[k])
                    sp == RunEnd(s, i + Len(kws[k]), SpaceChars)
                IN  {SubSeq(s, sp + 1, e)} \cup FindWordsAfter(s, e + 1, kws)

COLOR_KEYWORDS == <<"in", "with", "wearing", "colour", "color", "shade of">>
AVOID_KEYWORDS == <<"avoid", "not", "no", "don't want", "skip">>

(***************************************************************************)
(* The occasion tables.  A Python dict is its keys in insertion order and  *)
(* a function on them.                                                     *)
(***************************************************************************)
OCCASION_KEYS ==
  << "interview", "business meeting", "office", "office party",
     "office ethnic day", "college ethnic day", "ethnic day", "wedding",
     "ritual", "home ritual", "ceremony", "temple visit",
     "birthday party", "party", "casual outing", "picnic",
     "shopping", "date", "beach party", "kids party",
     "kids outing", "family outing", "family gathering", "school",
     "school function", "tuition", "cooking", "swimming",
     "sports", "gym", "exercise", "yoga",
     "meditation", "hiking", "camping", "trekking",
     "mountain climbing", "gardening" >>

OCCASION_STYLES ==
  ("interview" :> {"formal"}) @@
  ("business meeting" :> {"formal"}) @@
  ("office" :> {"formal", "semi-formal"}) @@
  ("office party" :> {"semi-formal", "party"}) @@
  ("office ethnic day" :> {"ethnic"}) @@
  ("college ethnic day" :> {"ethnic"}) @@
  ("ethnic day" :> {"ethnic"}) @@
  ("wedding" :> {"party"}) @@
  ("ritual" :> {"ethnic", "traditional"}) @@
  ("home ritual" :> {"ethnic", "traditional"}) @@
  ("ceremony" :> {"ethnic", "formal"}) @@
  ("temple visit" :> {"ethnic", "traditional"}) @@
  ("birthday party" :> {"party"}) @@
  ("party" :> {"party"}) @@
  ("casual outing" :> {"casual", "shopping", "picnic"}) @@
  ("picnic" :> {"casual", "comfortable", "picnic", "shopping"}) @@
  ("shopping" :> {"casual", "shopping", "picnic"}) @@
  ("date" :> {"party", "smart-casual"}) @@
  ("beach party" :> {"party", "summerwear"}) @@
  ("kids party" :> {"colorful", "casual"}) @@
  ("kids outing" :> {"casual", "comfortable"}) @@
  ("family outing" :> {"casual", "semi-formal"}) @@
  ("family gathering" :> {"casual", "ethnic", "semi-formal"}) @@
  ("school" :> {"uniform", "casual"}) @@
  ("school function" :> {"ethnic", "formal"}) @@
  ("tuition" :> {"casual"}) @@
  ("cooking" :> {"comfortable"}) @@
  ("swimming" :> {"swim", "swimwear", "swiming"}) @@
  ("sports" :> {"gym", "yoga", "camping", "trekking", "running", "hiking"}) @@
  ("gym" :> {"yoga", "hiking", "camping", "trekking", "running"}) @@
  ("exercise" :> {"gym", "yoga", "hiking", "camping", "trekking", "running"}) @@
  ("yoga" :> {"gym", "hiking", "camping", "trekking", "running"}) @@
  ("meditation" :> {"yoga"}) @@
  ("hiking" :> {"gym", "yoga", "camping", "trekking", "running"}) @@
  ("camping" :> {"gym", "yoga", "hiking", "trekking", "running"}) @@
  ("trekking" :> {"gym", "yoga", "camping", "hiking", "running"}) @@
  ("mountain climbing" :> {"gym", "yoga", "camping", "trekking", "running", "hiking"}) @@
  ("gardening" :> {"casual", "camping"})

SYNONYM_KEYS == << "party", "gym", "shopping", "picnic" >>

OCCASION_SYNONYMS ==
  ("party" :> {"birthday party", "beach party", "wedding", "date", "office party", "officeparty"}) @@
  ("gym" :> {"yoga", "hiking", "camping", "trekking", "running", "exercise"}) @@
  ("shopping" :> {"mall", "buying clothes", "store visit"}) @@
  ("picnic" :> {"outdoor fun", "park outing"})

SeqRange(seq) == {seq[k] : k \in 1..Len(seq)}

(***************************************************************************)
(* re.findall(r'\b(k1|k2|...)\b', prompt) over the keys of OCCASION_STYLES *)
(* in dict order: the first alternative that matches at a position wins    *)
(* and the scan resumes after it.                                          *)
(***************************************************************************)
RECURSIVE FirstOccasionMatch(_, _, _)
FirstOccasionMatch(s, i, k) ==
  IF k > Len(OCCASION_KEYS) THEN 0
  ELSE IF StartsAt(s, i, OCCASION_KEYS[k]) /\ WordBoundary(s, i + Len(OCCASION_KEYS[k]))
       THEN k
       ELSE FirstOccasionMatch(s, i, k + 1)

RECURSIVE FindOccasions(_, _)
FindOccasions(s, i) ==
  IF i > Len(s) THEN {}
  ELSE LET k == IF WordBoundary(s, i) THEN FirstOccasionMatch(s, i, 1) ELSE 0
       IN  IF k = 0 THEN FindOccasions(s, i + 1)
           ELSE {OCCASION_KEYS[k]} \cup FindOccasions(s, i + Len(OCCASION_KEYS[k]))

\* avoid word normalisation (line 113): five replacements, left to right
NormalizeAvoid(a) ==
  Replace(Replace(Replace(Replace(Replace(a,
    "offwhite", "white"), "off-white", "white"), "cream", "white"),
    "ivory", "white"), "beige", "white")

\* swim normalisation (line 116)
NormalizeSwim(p) ==
  Replace(Replace(Replace(p, "swiming", "swimming"), "swim ", "swimming "),
          " swim", " swimming")

OFFICE_ETHNIC_PATTERNS ==
  {"office ethnic", "office traditional", "office cultural",
   "office ethnic day", "office traditional day", "office cultural day"}

\* the occasion fallback without the final "general" (lines 152-154 only)
ResolveOccasionsNoGeneral(expanded, outing) ==
  IF expanded = {} /\ outing THEN {"casual"} ELSE expanded

\* lines 151-156: "casual" for an outing-like prompt, and expanded or ["general"]
ResolveOccasions(expanded, outing) ==
  IF (IF expanded = {} /\ outing THEN {"casual"} ELSE expanded) = {}
  THEN {"general"}
  ELSE IF expanded = {} /\ outing THEN {"casual"} ELSE expanded

(***************************************************************************)
(* extract_prompt_requirements(prompt): the colours, occasions and avoid   *)
(* words as sets (the lists the source returns are built from sets and are *)
(* only tested for membership and emptiness), and needs_layer.             *)
(***************************************************************************)
extract_prompt_requirements(prompt0) ==
  LET lowered  == Lower(prompt0)
      colors   == FindWordsAfter(lowered, 1, COLOR_KEYWORDS)
      avoid    == {NormalizeAvoid(a) : a \in FindWordsAfter(lowered, 1, AVOID_KEYWORDS)}
      prompt   == NormalizeSwim(lowered)
      force_ethnic == \E pat \in OFFICE_ETHNIC_PATTERNS : Contains(prompt, pat)
      force_ethnic_general ==
        \E word \in {"ethnic", "traditional", "cultural"} : Contains(prompt, word)
      occasions == FindOccasions(prompt, 1)
                     \cup {k \in SeqRange(OCCASION_KEYS) : Contains(prompt, k)}
      bySynonym == {k \in SeqRange(SYNONYM_KEYS) :
                      \E syn \in OCCASION_SYNONYMS[k] : Contains(prompt, syn)}
      byAlias   == {k \in SeqRange(SYNONYM_KEYS) :
                      \E occ \in occasions : occ \in OCCASION_SYNONYMS[k]}
      forced    == IF force_ethnic \/ force_ethnic_general
                   THEN {"ethnic day", "ethnic", "traditional"} ELSE {}
      expanded  == occasions \cup bySynonym \cup byAlias \cup forced
      outing    == \E word \in {"outing", "walk", "park", "shopping", "picnic"} :
                      Contains(prompt, word)
  IN  [colors      |-> colors,
       occasions   |-> ResolveOccasions(expanded, outing),
       avoid       |-> avoid,
       needs_layer |-> Contains(prompt, "layer") \/ Contains(prompt, "cold")]


(***************************************************************************)
(* Colours.  _color_distance maps both names to RGB (unknown names to the  *)
(* gray default), converts to Lab and returns colormath's CIEDE2000        *)
(* difference.  DELTA_E holds the integer part of that difference for      *)
(* every pair of the thirteen RGB triples of css_colors, computed from the *)
(* sRGB (D65) -> XYZ -> Lab conversion and the CIEDE2000 formula; the      *)
(* source only compares the distance with the integer 15, and d < 15 iff   *)
(* floor(d) < 15.                                                          *)
(***************************************************************************)
css_colors ==
  [red |-> <<255, 0, 0>>, blue |-> <<0, 0, 255>>, green |-> <<0, 128, 0>>,
   black |-> <<0, 0, 0>>, white |-> <<255, 255, 255>>, pink |-> <<255, 192, 203>>,
   gray |-> <<128, 128, 128>>, yellow |-> <<255, 255, 0>>, purple |-> <<128, 0, 128>>,
   orange |-> <<255, 165, 0>>, brown |-> <<139, 69, 19>>, navy |-> <<0, 0, 128>>,
   gold |-> <<255, 215, 0>>]

to_rgb(color) ==
  IF color \in DOMAIN css_colors THEN css_colors[color] ELSE <<128, 128, 128>>

DELTA_E ==
  [red |-> [red |-> 0, blue |-> 52, green |-> 72, black |-> 50, white |-> 45, pink |-> 34, gray |-> 31, yellow |-> 64, purple |-> 43, orange |-> 33, brown |-> 23, navy |-> 55, gold |-> 51],
   blue |-> [red |-> 52, blue |-> 0, green |-> 62, black |-> 39, white |-> 64, pink |-> 56, gray |-> 38, yellow |-> 103, purple |-> 19, orange |-> 78, brown |-> 51, navy |-> 16, gold |-> 92],
   green |-> [red |-> 72, blue |-> 62, green |-> 0, black |-> 43, white |-> 48, pink |-> 63, gray |-> 28, yellow |-> 43, purple |-> 84, orange |-> 48, brown |-> 47, navy |-> 62, gold |-> 43],
   black |-> [red |-> 50, blue |-> 39, green |-> 43, black |-> 0, white |-> 99, pink |-> 77, gray |-> 39, yellow |-> 101, purple |-> 33, orange |-> 69, brown |-> 34, navy |-> 29, gold |-> 85],
   white |-> [red |-> 45, blue |-> 64, green |-> 48, black |-> 99, white |-> 0, pink |-> 22, gray |-> 33, yellow |-> 30, purple |-> 63, orange |-> 33, brown |-> 54, navy |-> 85, gold |-> 30],
   pink |-> [red |-> 34, blue |-> 56, green |-> 63, black |-> 77, white |-> 22, pink |-> 0, gray |-> 30, yellow |-> 50, purple |-> 53, orange |-> 35, brown |-> 45, navy |-> 75, gold |-> 43],
   gray |-> [red |-> 31, blue |-> 38, green |-> 28, black |-> 39, white |-> 33, pink |-> 30, gray |-> 0, yellow |-> 43, purple |-> 34, orange |-> 33, brown |-> 28, navy |-> 43, gold |-> 39],
   yellow |-> [red |-> 64, blue |-> 103, green |-> 43, black |-> 101, white |-> 30, pink |-> 50, gray |-> 43, yellow |-> 0, purple |-> 96, orange |-> 29, brown |-> 58, navy |-> 112, gold |-> 11],
   purple |-> [red |-> 43, blue |-> 19, green |-> 84, black |-> 33, white |-> 63, pink |-> 53, gray |-> 34, yellow |-> 96, purple |-> 0, orange |-> 72, brown |-> 42, navy |-> 18, gold |-> 86],
   orange |-> [red |-> 33, blue |-> 78, green |-> 48, black |-> 69, white |-> 33, pink |-> 35, gray |-> 33, yellow |-> 29, purple |-> 72, orange |-> 0, brown |-> 37, navy |-> 83, gold |-> 17],
   brown |-> [red |-> 23, blue |-> 51, green |-> 47, black |-> 34, white |-> 54, pink |-> 45, gray |-> 28, yellow |-> 58, purple |-> 42, orange |-> 37, brown |-> 0, navy |-> 49, gold |-> 49],
   navy |-> [red |-> 55, blue |-> 16, green |-> 62, black |-> 29, white |-> 85, pink |-> 75, gray |-> 43, yellow |-> 112, purple |-> 18, orange |-> 83, brown |-> 49, navy |-> 0, gold |-> 102],
   gold |-> [red |-> 51, blue |-> 92, green |-> 43, black |-> 85, white |-> 30, pink |-> 43, gray |-> 39, yellow |-> 11, purple |-> 86, orange |-> 17, brown |-> 49, navy |-> 102, gold |-> 0]]

\* the css name of an RGB triple of the table (the triples are pairwise distinct)
RgbName(rgb) == CHOOSE n \in DOMAIN css_colors : css_colors[n] = rgb

_color_distance(color1, color2) ==
  DELTA_E[RgbName(to_rgb(color1))][RgbName(to_rgb(color2))]

COLOR_THRESHOLD == 15

color_terms ==
  {"red", "blue", "green", "black", "white", "pink", "gray", "yellow", "purple",
   "orange", "brown", "navy", "gold", "cream", "ivory", "offwhite", "beige"}

\* _color_match with the requested colours tested ahead of the forbidden ones
_color_match_requested_first(item_tags, requested_colors, forbidden_colors) ==
  LET color_tags == item_tags \cap color_terms
  IN  IF /\ requested_colors # {}
         /\ \E rc \in requested_colors : \E tag \in color_tags :
              _color_distance(tag, rc) < COLOR_THRESHOLD
      THEN TRUE
      ELSE IF \E tag \in color_tags : \E fc \in forbidden_colors :
                _color_distance(tag, fc) < COLOR_THRESHOLD
           THEN FALSE
           ELSE requested_colors = {}

\* item_tags, requested_colors and forbidden_colors are sets here: the source
\* only iterates over them with any(...) and tests requested_colors for emptiness
_color_match(item_tags, requested_colors, forbidden_colors) ==
  LET color_tags == item_tags \cap color_terms
  IN  IF \E tag \in color_tags : \E fc \in forbidden_colors :
           _color_distance(tag, fc) < COLOR_THRESHOLD
      THEN FALSE
      ELSE IF requested_colors # {}
           THEN \E rc \in requested_colors : \E tag \in color_tags :
                  _color_distance(tag, rc) < COLOR_THRESHOLD
           ELSE TRUE

(***************************************************************************)
(* Wardrobe items are records [name, category, tags, age_group, gender];   *)
(* the image reference is never read by the engine.                        *)
(***************************************************************************)
\* _filter_by_profile without the age_group test
_filter_by_profile_any_age(items, profile) ==
  SelectSeq(items, LAMBDA item : item.gender \in {"unisex", profile.gender})

_filter_by_profile(items, profile) ==
  SelectSeq(items, LAMBDA item :
    /\ item.age_group \in {"all", profile.age_group}
    /\ item.gender \in {"unisex", profile.gender})

\* filter_category whose gender filter reads items instead of cat_items
filter_category_from_items(items, cat, gender) ==
  LET cat_items == SelectSeq(items, LAMBDA i : i.category = cat)
  IN  IF gender # ""
      THEN SelectSeq(items, LAMBDA i : i.gender \in {gender, "unisex"})
      ELSE cat_items

\* filter_category(cat, gender=None) over the profile-filtered items; gender ""
\* stands for an absent (falsy) gender
filter_category(items, cat, gender) ==
  LET cat_items == SelectSeq(items, LAMBDA i : i.category = cat)
  IN  IF gender # ""
      THEN SelectSeq(cat_items, LAMBDA i : i.gender \in {gender, "unisex"})
      ELSE cat_items

\* color_matched(items) (lines 232-236)
color_matched(items, colors, avoid) ==
  IF colors # {}
  THEN SelectSeq(items, LAMBDA i : _color_match(i.tags, colors, avoid))
  ELSE <<>>

HasTagIn(item, tagset) == item.tags \cap tagset # {}

Names(items) == {items[k].name : k \in 1..Len(items)}

Outfit(type, items) == [type |-> type, items |-> items]
NoneOutfit == Outfit("none", <<>>)

\* the result of a call: returned outfits, or the exception raised
Returned(outfits) == [status |-> "ok", outfits |-> outfits]
Raised(exc) == [status |-> exc, outfits |-> <<>>]

\* seq[:n] for n >= 0 and for negative n
Take(seq, n) ==
  IF n >= 0 THEN SubSeq(seq, 1, IF n < Len(seq) THEN n ELSE Len(seq))
  ELSE SubSeq(seq, 1, Len(seq) + n)

(***************************************************************************)
(* The swimwear branch (lines 241-264).  No random choice.                 *)
(***************************************************************************)
RECURSIVE SwimFill(_, _, _, _)
SwimFill(outfits, used_names, swimwear_items, k) ==
  \* the loop of lines 248-253: it leaves when len(outfits) == 3 is seen
  \* at the end of an iteration
  IF k > Len(swimwear_items) THEN outfits
  ELSE LET sw   == swimwear_items[k]
           new  == sw.name \notin used_names
           outs == IF new THEN Append(outfits, Outfit("swimwear", <<sw>>)) ELSE outfits
       IN  IF Len(outs) = 3 THEN outs
           ELSE SwimFill(outs, used_names \cup {sw.name}, swimwear_items, k + 1)

RECURSIVE PadNone(_)
PadNone(outfits) ==
  IF Len(outfits) < 3 THEN PadNone(Append(outfits, NoneOutfit)) ELSE outfits

SwimwearBranch(items, gender, colors, avoid) ==
  LET swimwear_items == filter_category(items, "swimwear", gender)
      color_matched_swimwear ==
        IF colors # {}
        THEN SelectSeq(swimwear_items, LAMBDA i : _color_match(i.tags, colors, avoid))
        ELSE <<>>
      first  == [k \in 1..Len(color_matched_swimwear) |->
                   Outfit("swimwear", <<color_matched_swimwear[k]>>)]
      filled == IF Len(first) < 3
                THEN SwimFill(first, Names(color_matched_swimwear), swimwear_items, 1)
                ELSE first
  IN  Returned(PadNone(filled))


(***************************************************************************)
(* The prompts of the model.  extract_prompt_requirements is a pure        *)
(* function of the prompt; Requirements is that function, tabulated once   *)
(* over PROMPTS so that a prompt is not parsed again in every state.       *)
(***************************************************************************)
PROMPTS ==
  {"swimming in blue", "swim avoid black", "gym in blue", "party in blue",
   "formal interview in blue, avoid black", "ethnic day", "cold dinner in blue", "hello",
   "gym party swim"}

\* the prompts submitted through the web form
WEB_PROMPTS == {"party in blue", "swim avoid black", "hello"}

ParsedPrompts == {<<p, extract_prompt_requirements(p)>> : p \in PROMPTS}

Requirements(prompt) ==
  IF prompt \in PROMPTS
  THEN (CHOOSE e \in ParsedPrompts : e[1] = prompt)[2]
  ELSE extract_prompt_requirements(prompt)

(***************************************************************************)
(* recommend_outfits, lines 211-311: the requirements, the style tags and  *)
(* the candidate pools every later branch reads.  context.season comes     *)
(* from the wall clock (get_context).                                      *)
(***************************************************************************)
StyleTags(occasions) ==
  UNION {IF occ \in DOMAIN OCCASION_STYLES THEN OCCASION_STYLES[occ] ELSE {occ}
         : occ \in occasions} \cup occasions

ETHNIC_TAGS == {"ethnic", "traditional"}
ACTIVE_OCCASIONS == {"gym", "hiking", "trekking", "yoga", "exercise", "camping"}
FORMAL_OCCASIONS == {"office", "business meeting", "interview"}

\* lines 274-286: both arms of strict_casual_filter keep the items with a tag
\* among the style tags; the pool falls back to all items when none is left
StyleFilter(cat_items, style_tags) ==
  LET styled == SelectSeq(cat_items, LAMBDA t : HasTagIn(t, style_tags))
  IN  IF styled = <<>> THEN cat_items ELSE styled

\* the pools with the forbidden colours left in
AvoidFilterSkipped(cat_items, avoid) == cat_items

\* lines 289-291: forbidden colours
AvoidFilter(cat_items, avoid) ==
  IF avoid # {}
  THEN SelectSeq(cat_items, LAMBDA t : _color_match(t.tags, {}, avoid))
  ELSE cat_items

\* lines 294-302: ethnic narrowing, kept only when non-empty
EthnicFilter(cat_items, style_tags) ==
  LET eth == SelectSeq(cat_items, LAMBDA t : HasTagIn(t, ETHNIC_TAGS))
  IN  IF style_tags \cap ETHNIC_TAGS # {} /\ eth # <<>> THEN eth ELSE cat_items

\* the pools narrowed by the forbidden colours only
CategoryPoolAnyStyle(cat_items, style_tags, avoid) == AvoidFilter(cat_items, avoid)

CategoryPool(cat_items, style_tags, avoid) ==
  EthnicFilter(AvoidFilter(StyleFilter(cat_items, style_tags), avoid), style_tags)

\* line 267
OnePieces(items, gender) ==
  IF gender = "female"
  THEN filter_category(items, "one-piece", "female")
         \o filter_category(items, "one_piece", "female")
  ELSE <<>>

\* line 215
LayerNeeded(req, prompt, context) ==
  \/ req.needs_layer
  \/ Contains(prompt, "layer") \/ Contains(prompt, "cold")
  \/ context.season = "winter"

PoolsFor(req, layer_needed, style_tags, items, gender) ==
  [colors |-> req.colors, avoid |-> req.avoid, occasions |-> req.occasions,
   layer_needed |-> layer_needed, style_tags |-> style_tags,
   items |-> items, gender |-> gender, one_pieces |-> OnePieces(items, gender),
   tops_all |-> filter_category(items, "topwear", gender),
   bottoms_all |-> filter_category(items, "bottomwear", gender),
   tops |-> CategoryPool(filter_category(items, "topwear", gender), style_tags, req.avoid),
   bottoms |-> CategoryPool(filter_category(items, "bottomwear", gender), style_tags, req.avoid),
   layers |-> filter_category(items, "layer", gender),
   filtered |-> SelectSeq(items, LAMBDA i : HasTagIn(i, style_tags))]

PoolsOf(req, prompt, profile, context, catalog) ==
  PoolsFor(req, LayerNeeded(req, prompt, context), StyleTags(req.occasions),
           _filter_by_profile(catalog, profile), profile.gender)

Pools(prompt, profile, context, catalog) ==
  PoolsOf(Requirements(prompt), prompt, profile, context, catalog)

\* [(t, b) for t in tops for b in bottoms], in that order
RECURSIVE AllPairs(_, _, _)
AllPairs(tops, bottoms, k) ==
  IF k > Len(tops) THEN <<>>
  ELSE [j \in 1..Len(bottoms) |-> <<tops[k], bottoms[j]>>] \o AllPairs(tops, bottoms, k + 1)

(***************************************************************************)
(* The active branch (lines 313-350).  pairs_to_use[idx % len(...)] raises *)
(* ZeroDivisionError when there is no pair.                                *)
(***************************************************************************)
\* the active branch pairing all the tops and bottoms of the profile, whatever
\* their tags
ActiveBranchAnyTag(e) ==
  LET all_pairs   == AllPairs(e.tops_all, e.bottoms_all, 1)
      color_pairs == SelectSeq(all_pairs, LAMBDA p :
                       \/ _color_match(p[1].tags, e.colors, e.avoid)
                       \/ _color_match(p[2].tags, e.colors, e.avoid))
      pairs_to_use == IF e.colors # {} /\ color_pairs # <<>> THEN color_pairs ELSE all_pairs
  IN  IF Len(pairs_to_use) = 0 THEN Raised("ZeroDivisionError")
      ELSE Returned([idx \in 1..3 |->
             LET p == pairs_to_use[((idx - 1) % Len(pairs_to_use)) + 1]
             IN  Outfit("multi_piece", <<p[1], p[2]>>)])

ActiveBranch(e) ==
  LET relevant == e.style_tags \cup ACTIVE_OCCASIONS
      relevant_tops    == SelectSeq(e.tops, LAMBDA t : HasTagIn(t, relevant))
      relevant_bottoms == SelectSeq(e.bottoms, LAMBDA b : HasTagIn(b, relevant))
      all_pairs   == AllPairs(relevant_tops, relevant_bottoms, 1)
      color_pairs == SelectSeq(all_pairs, LAMBDA p :
                       \/ _color_match(p[1].tags, e.colors, e.avoid)
                       \/ _color_match(p[2].tags, e.colors, e.avoid))
      pairs_to_use == IF e.colors # {} /\ color_pairs # <<>> THEN color_pairs ELSE all_pairs
  IN  IF Len(pairs_to_use) = 0 THEN Raised("ZeroDivisionError")
      ELSE Returned([idx \in 1..3 |->
             LET p == pairs_to_use[((idx - 1) % Len(pairs_to_use)) + 1]
             IN  Outfit("multi_piece", <<p[1], p[2]>>)])

(***************************************************************************)
(* The party branch (lines 364-467).  With requested colours it always     *)
(* returns; without, it only narrows tops and bottoms.                     *)
(***************************************************************************)
PARTY_PRIORITY_TAGS == {"party", "semi-formal", "summerwear", "beach party"}
PARTY_FALLBACK_TAGS == {"formal", "office party"}

\* lines 368-381
PartyPools(e, tops, bottoms) ==
  LET pt1 == SelectSeq(tops, LAMBDA t : HasTagIn(t, PARTY_PRIORITY_TAGS))
      pb1 == SelectSeq(bottoms, LAMBDA b : HasTagIn(b, PARTY_PRIORITY_TAGS))
      pt2 == IF pt1 = <<>> THEN SelectSeq(tops, LAMBDA t : HasTagIn(t, PARTY_FALLBACK_TAGS))
             ELSE pt1
      pb2 == IF pb1 = <<>> THEN SelectSeq(bottoms, LAMBDA b : HasTagIn(b, PARTY_FALLBACK_TAGS))
             ELSE pb1
      eth == (pt2 = <<>> \/ pb2 = <<>>) /\ (ETHNIC_TAGS \cap e.style_tags # {})
  IN  [tops    |-> IF eth THEN SelectSeq(e.tops_all, LAMBDA t : HasTagIn(t, ETHNIC_TAGS))
                   ELSE pt2,
       bottoms |-> IF eth THEN SelectSeq(e.bottoms_all, LAMBDA b : HasTagIn(b, ETHNIC_TAGS))
                   ELSE pb2]

\* [top, b] plus random.choice(layers) when a layer is needed and one exists
PartyCombos(e, top, b) ==
  IF e.layer_needed /\ e.layers # <<>>
  THEN {Outfit("multi_piece", <<top, b, l>>) : l \in SeqRange(e.layers)}
  ELSE {Outfit("multi_piece", <<top, b>>)}

\* lines 421-429
RECURSIVE PartyDistinct(_, _, _, _, _, _)
PartyDistinct(e, top, party_bottoms, outfits, used_bottoms, k) ==
  IF k > Len(party_bottoms) THEN {outfits}
  ELSE LET b == party_bottoms[k]
       IN  IF b.name \in used_bottoms
           THEN PartyDistinct(e, top, party_bottoms, outfits, used_bottoms, k + 1)
           ELSE UNION {
                  IF Len(outfits) + 1 = 3 THEN {Append(outfits, o)}
                  ELSE PartyDistinct(e, top, party_bottoms, Append(outfits, o),
                                     used_bottoms \cup {b.name}, k + 1)
                  : o \in PartyCombos(e, top, b)}

\* lines 431-436
RECURSIVE PartyRepeat(_, _, _, _)
PartyRepeat(e, top, party_bottoms, outfits) ==
  IF Len(outfits) >= 3 THEN {outfits}
  ELSE UNION {UNION {PartyRepeat(e, top, party_bottoms, Append(outfits, o))
                     : o \in PartyCombos(e, top, b)}
              : b \in SeqRange(party_bottoms)}

\* lines 384-459: the party branch when colours are requested
PartyColorBranch(e, pools) ==
  LET ptc == SelectSeq(pools.tops, LAMBDA t : _color_match(t.tags, e.colors, e.avoid))
      pbc == SelectSeq(pools.bottoms, LAMBDA b : _color_match(b.tags, e.colors, e.avoid))
      party_tops    == IF ptc # <<>> THEN ptc ELSE pools.tops
      party_bottoms == IF pbc # <<>> THEN pbc ELSE pools.bottoms
      one_pieces_party == SelectSeq(e.one_pieces, LAMBDA op : HasTagIn(op, PARTY_PRIORITY_TAGS))
      one_pieces_color == SelectSeq(one_pieces_party,
                            LAMBDA op : _color_match(op.tags, e.colors, e.avoid))
      \* lines 397-414
      ops    == [k \in 1..Len(Take(one_pieces_color, 3)) |->
                   Outfit("one_piece", <<one_pieces_color[k]>>)]
      needed == 3 - Len(ops)
      fill   == IF party_tops # <<>> /\ party_bottoms # <<>> /\ needed > 0
                THEN [i \in 1..needed |->
                       Outfit("multi_piece",
                              <<party_tops[1],
                                party_bottoms[((i - 1) % Len(party_bottoms)) + 1]>>)]
                ELSE <<>>
      \* lines 417-436
      built  == IF party_tops # <<>> /\ party_bottoms # <<>>
                THEN UNION {PartyRepeat(e, party_tops[1], party_bottoms, o)
                            : o \in PartyDistinct(e, party_tops[1], party_bottoms, <<>>, {}, 1)}
                ELSE {<<>>}
      \* lines 438-445
      fallback_tops    == SelectSeq(e.tops_all, LAMBDA t : HasTagIn(t, ETHNIC_TAGS))
      fallback_bottoms == SelectSeq(e.bottoms_all, LAMBDA b : HasTagIn(b, ETHNIC_TAGS))
      nzip   == IF Len(fallback_tops) < Len(fallback_bottoms)
                THEN Len(fallback_tops) ELSE Len(fallback_bottoms)
      zipped == [k \in 1..(IF nzip < 3 THEN nzip ELSE 3) |->
                  Outfit("multi_piece", <<fallback_tops[k], fallback_bottoms[k]>>)]
      Finish(outfits) ==
        LET o2 == IF outfits = <<>> /\ (ETHNIC_TAGS \cap e.style_tags # {})
                  THEN zipped ELSE outfits
        IN  IF o2 = <<>> THEN Returned(<<NoneOutfit, NoneOutfit, NoneOutfit>>)
            ELSE Returned(o2)
  IN  IF e.gender = "female" /\ one_pieces_color # <<>>
      THEN {Returned(ops \o fill)}
      ELSE {Finish(o) : o \in built}


(***************************************************************************)
(* make_top_bottom_outfits (lines 550-669).  Which (top, bottom) pairs are *)
(* emitted depends only on names and counts; maybe_add_layer then appends  *)
(* a randomly chosen layer to each pair, independently.  MakePairs is the  *)
(* deterministic part: the loops run over a record                         *)
(*   st = [combos, used_bottoms, used_pairs, done]                         *)
(* where done means that a `return` was executed.  c holds the arguments   *)
(* and the closure variables: top_list, bottom_list, n, tops_color,        *)
(* bottoms_color, colors.                                                  *)
(***************************************************************************)
PairName(t, b) == <<t.name, b.name>>

ColorEither(c, t, b) ==
  _color_match(t.tags, c.colors, {}) \/ _color_match(b.tags, c.colors, {})

Emit(st, t, b, addBottom, addPair, limit) ==
  [combos       |-> Append(st.combos, <<t, b>>),
   used_bottoms |-> IF addBottom THEN st.used_bottoms \cup {b.name} ELSE st.used_bottoms,
   used_pairs   |-> IF addPair THEN st.used_pairs \cup {PairName(t, b)} ELSE st.used_pairs,
   done         |-> Len(st.combos) + 1 >= limit]

\* lines 566-579
RECURSIVE ColorTopsLoop(_, _, _, _)
ColorTopsLoop(c, st, i, j) ==
  IF st.done \/ i > Len(c.tops_color) THEN st
  ELSE IF j > Len(c.bottom_list) THEN ColorTopsLoop(c, st, i + 1, 1)
  ELSE LET t == c.tops_color[i]
           b == c.bottom_list[j]
       IN  IF \/ b.name \in st.used_bottoms
              \/ PairName(t, b) \in st.used_pairs
              \/ ~ColorEither(c, t, b)
           THEN ColorTopsLoop(c, st, i, j + 1)
           ELSE ColorTopsLoop(c, Emit(st, t, b, TRUE, TRUE, c.n), i, j + 1)

\* lines 581-596: the bottom is only tested against used_bottoms before the
\* inner loop starts
RECURSIVE ColorBottomsLoop(_, _, _, _)
ColorBottomsLoop(c, st, i, j) ==
  IF st.done \/ i > Len(c.bottoms_color) THEN st
  ELSE IF j = 1 /\ c.bottoms_color[i].name \in st.used_bottoms
       THEN ColorBottomsLoop(c, st, i + 1, 1)
  ELSE IF j > Len(c.top_list) THEN ColorBottomsLoop(c, st, i + 1, 1)
  ELSE LET b == c.bottoms_color[i]
           t == c.top_list[j]
       IN  IF PairName(t, b) \in st.used_pairs \/ ~ColorEither(c, t, b)
           THEN ColorBottomsLoop(c, st, i, j + 1)
           ELSE ColorBottomsLoop(c, Emit(st, t, b, TRUE, TRUE, c.n), i, j + 1)

\* lines 601-613: st.done here means `break`
RECURSIVE SingleTopLoop(_, _, _, _, _)
SingleTopLoop(c, st, bs, bottom_used, k) ==
  IF st.done \/ k > Len(bs) THEN st
  ELSE LET top == c.tops_color[1]
           b   == bs[k]
       IN  IF b.name \in bottom_used \/ PairName(top, b) \in st.used_pairs
           THEN SingleTopLoop(c, st, bs, bottom_used, k + 1)
           ELSE SingleTopLoop(c, Emit(st, top, b, FALSE, TRUE, c.n - 1), bs,
                              bottom_used \cup {b.name}, k + 1)

\* lines 614-624: the first admissible pair is appended and the function returns
RECURSIVE OtherTopLoop(_, _, _, _)
OtherTopLoop(c, st, i, j) ==
  IF st.done \/ i > Len(c.top_list) THEN st
  ELSE IF j > Len(c.bottom_list) THEN OtherTopLoop(c, st, i + 1, 1)
  ELSE LET t == c.top_list[i]
           b == c.bottom_list[j]
       IN  IF \/ PairName(t, b) \in st.used_pairs
              \/ t.name = c.tops_color[1].name
              \/ _color_match(t.tags, c.colors, {})
           THEN OtherTopLoop(c, st, i, j + 1)
           ELSE [Emit(st, t, b, FALSE, FALSE, 0) EXCEPT !.done = TRUE]

\* lines 630-642
RECURSIVE FreshLoop(_, _, _, _, _)
FreshLoop(c, st, used_tops, i, j) ==
  IF st.done \/ i > Len(c.top_list) THEN st
  ELSE IF j > Len(c.bottom_list) THEN FreshLoop(c, st, used_tops, i + 1, 1)
  ELSE LET t == c.top_list[i]
           b == c.bottom_list[j]
       IN  IF \/ t.name \in used_tops
              \/ b.name \in st.used_bottoms
              \/ PairName(t, b) \in st.used_pairs
           THEN FreshLoop(c, st, used_tops, i, j + 1)
           ELSE FreshLoop(c, Emit(st, t, b, TRUE, TRUE, c.n),
                          used_tops \cup {t.name}, i, j + 1)

\* lines 643-652
RECURSIVE ReuseLoop(_, _, _, _)
ReuseLoop(c, st, i, j) ==
  IF st.done \/ i > Len(c.top_list) THEN st
  ELSE IF j > Len(c.bottom_list) THEN ReuseLoop(c, st, i + 1, 1)
  ELSE LET t == c.top_list[i]
           b == c.bottom_list[j]
       IN  IF PairName(t, b) \in st.used_pairs
           THEN ReuseLoop(c, st, i, j + 1)
           ELSE ReuseLoop(c, Emit(st, t, b, FALSE, FALSE, c.n), i, j + 1)

\* lines 655-668
RECURSIVE AvoidColorLoop(_, _, _, _)
AvoidColorLoop(c, st, i, j) ==
  IF st.done \/ i > Len(c.top_list) THEN st
  ELSE IF j > Len(c.bottom_list) THEN AvoidColorLoop(c, st, i + 1, 1)
  ELSE LET t == c.top_list[i]
           b == c.bottom_list[j]
       IN  IF \/ b.name \in st.used_bottoms
              \/ PairName(t, b) \in st.used_pairs
              \/ (c.colors # {} /\ ColorEither(c, t, b))
           THEN AvoidColorLoop(c, st, i, j + 1)
           ELSE AvoidColorLoop(c, Emit(st, t, b, TRUE, TRUE, c.n), i, j + 1)

MakePairs(c, prefer_color) ==
  LET st0 == [combos |-> <<>>, used_bottoms |-> {}, used_pairs |-> {}, done |-> FALSE]
      stA == IF prefer_color /\ (c.tops_color # <<>> \/ c.bottoms_color # <<>>)
             THEN ColorBottomsLoop(c, ColorTopsLoop(c, st0, 1, 1), 1, 1)
             ELSE st0
  IN  IF stA.done THEN stA.combos
      ELSE IF c.colors # {} /\ Len(c.tops_color) = 1
      THEN LET stB == SingleTopLoop(c, stA, c.bottoms_color \o c.bottom_list, {}, 1)
               stC == OtherTopLoop(c, [stB EXCEPT !.done = FALSE], 1, 1)
           IN  Take(stC.combos, c.n)
      ELSE IF c.colors = {}
      THEN LET stB == FreshLoop(c, [stA EXCEPT !.used_bottoms = {}], {}, 1, 1)
           IN  IF stB.done THEN stB.combos ELSE ReuseLoop(c, stB, 1, 1).combos
      ELSE AvoidColorLoop(c, stA, 1, 1).combos

\* maybe_add_layer (lines 555-563): the combos a pair can become
LayeredCombos(e, layers_color, layer_list, combo) ==
  IF ~e.layer_needed THEN {combo}
  ELSE LET lyr_choices == IF layers_color # <<>> THEN layers_color ELSE layer_list
           avail_layers == SelectSeq(lyr_choices, LAMBDA l : l.name \notin Names(combo))
           filtered_layers == SelectSeq(avail_layers, LAMBDA l : HasTagIn(l, e.style_tags))
           selected == IF filtered_layers # <<>> THEN filtered_layers ELSE avail_layers
       IN  IF avail_layers = <<>> THEN {combo}
           ELSE {Append(combo, lyr) : lyr \in SeqRange(selected)}

\* all the lists of outfits the pairs can become, one choice per pair
RECURSIVE WithLayers(_, _, _, _)
WithLayers(e, layers_color, layer_list, pairs) ==
  IF pairs = <<>> THEN {<<>>}
  ELSE {<<Outfit("multi_piece", combo)>> \o rest :
          combo \in LayeredCombos(e, layers_color, layer_list, pairs[1]),
          rest \in WithLayers(e, layers_color, layer_list, Tail(pairs))}

make_top_bottom_outfits(e, c, layers_color, layer_list, prefer_color) ==
  WithLayers(e, layers_color, layer_list, MakePairs(c, prefer_color))


(***************************************************************************)
(* The default path (lines 469-714 and the return of lines 765-770).  Each *)
(* stage maps a list of outfits to the set of lists it can become.         *)
(***************************************************************************)
EXCLUDE_ONE_PIECE_TAGS == {"ritual", "ceremony", "ethnic", "traditional"}
EXCLUDE_ONE_PIECE_CASUAL == {"casual", "comfortable", "picnic", "shopping"}

\* lines 479-502: [outfits, used] after the one-piece stage
OnePieceStage(e, one_pieces_color, layers_color) ==
  LET strictly_formal == e.occasions \subseteq FORMAL_OCCASIONS
  IN  IF /\ e.gender = "female"
         /\ e.one_pieces # <<>>
         /\ ~strictly_formal
         /\ EXCLUDE_ONE_PIECE_TAGS \cap e.style_tags = {}
         /\ EXCLUDE_ONE_PIECE_CASUAL \cap e.style_tags = {}
      THEN LET op_choices  == IF one_pieces_color # <<>> THEN one_pieces_color
                              ELSE e.one_pieces
               lyr_choices == IF layers_color # <<>> THEN layers_color ELSE e.layers
           IN  UNION {
                 LET avail_layers == SelectSeq(lyr_choices, LAMBDA l : l.name # op.name)
                 IN  IF e.layer_needed /\ e.layers # <<>> /\ avail_layers # <<>>
                     THEN {[outfits |-> <<Outfit("one_piece", <<op, lyr>>)>>,
                            used |-> {op.name, lyr.name}]
                           : lyr \in SeqRange(avail_layers)}
                     ELSE {[outfits |-> <<Outfit("one_piece", <<op>>)>>,
                            used |-> {op.name}]}
                 : op \in SeqRange(op_choices)}
      ELSE {[outfits |-> <<>>, used |-> {}]}

\* lines 513-524 over random.shuffle(tb_pairs): the next pair is any pair not
\* yet visited; the loop ends after two outfits were added
RECURSIVE LayeredLoop(_, _, _, _, _, _)
LayeredLoop(e, layers_color, pairs, rest, outfits, added) ==
  IF rest = {} THEN {outfits}
  ELSE UNION {
    LET combo == pairs[k]
        lyr_choices  == IF layers_color # <<>> THEN layers_color ELSE e.layers
        avail_layers == SelectSeq(lyr_choices, LAMBDA l : l.name \notin Names(combo))
        combos == IF avail_layers # <<>>
                  THEN {Append(combo, lyr) : lyr \in SeqRange(avail_layers)}
                  ELSE {combo}
    IN  UNION {
          LET dup  == \E n \in 1..Len(outfits) : Names(outfits[n].items) = Names(cb)
              outs == IF dup THEN outfits ELSE Append(outfits, Outfit("multi_piece", cb))
              add2 == IF dup THEN added ELSE added + 1
          IN  IF add2 >= 2 THEN {outs}
              ELSE LayeredLoop(e, layers_color, pairs, rest \ {k}, outs, add2)
          : cb \in combos}
    : k \in rest}

LayeredStage(e, tops, bottoms, layers_color, outfits) ==
  IF e.layer_needed /\ tops # <<>> /\ bottoms # <<>> /\ e.layers # <<>>
  THEN LET tb_pairs == AllPairs(tops, bottoms, 1)
       IN  LayeredLoop(e, layers_color, tb_pairs, 1..Len(tb_pairs), outfits, 0)
  ELSE {outfits}

\* lines 535-544 (the arm of line 527 cannot be taken here: a swimming call
\* returned at line 259)
RECURSIVE LegacySwimLoop(_, _, _, _)
LegacySwimLoop(swimwear_items, outfits, used, k) ==
  IF k > Len(swimwear_items) THEN outfits
  ELSE LET sw == swimwear_items[k]
       IN  IF sw.name \in used
           THEN LegacySwimLoop(swimwear_items, outfits, used, k + 1)
           ELSE LET outs == Append(outfits, Outfit("swimwear", <<sw>>))
                IN  IF Len(outs) >= 3 THEN outs
                    ELSE LegacySwimLoop(swimwear_items, outs, used \cup {sw.name}, k + 1)

LegacySwimStage(e, outfits, used) ==
  LegacySwimLoop(SelectSeq(e.filtered, LAMBDA i : i.category = "swimwear"),
                 outfits, used, 1)

\* lines 673-680
FillStage(e, tops, bottoms, tops_color, bottoms_color, layers_color, outfits) ==
  LET C(n) == [top_list |-> tops, bottom_list |-> bottoms, n |-> n,
               tops_color |-> tops_color, bottoms_color |-> bottoms_color,
               colors |-> e.colors]
      first == {outfits \o combos :
                  combos \in make_top_bottom_outfits(e, C(3 - Len(outfits)),
                                                     layers_color, e.layers, TRUE)}
  IN  UNION {IF 3 - Len(o) > 0
             THEN {o \o combos :
                     combos \in make_top_bottom_outfits(e, C(3 - Len(o)),
                                                        layers_color, e.layers, FALSE)}
             ELSE {o}
             : o \in first}

\* the fallback combo with the layer put between the top and the bottom
FallbackCombosLayerSecond(e, t, b) ==
  IF e.layer_needed /\ e.layers # <<>>
  THEN {<<t, lyr, b>> : lyr \in SeqRange(e.layers)}
  ELSE {<<t, b>>}

\* [t, b] plus random.choice(layers) when a layer is needed and one exists
FallbackCombos(e, t, b) ==
  IF e.layer_needed /\ e.layers # <<>>
  THEN {<<t, b, lyr>> : lyr \in SeqRange(e.layers)}
  ELSE {<<t, b>>}

(***************************************************************************)
(* Fallback tier 1 (lines 683-705).  used_pairs is built as a set of       *)
(* generator objects, one per emitted outfit; a (top name, bottom name)    *)
(* tuple never equals a generator, so for the membership test of line 693  *)
(* the set starts without any pair.  prior is the set of pairs that test   *)
(* sees as present before the loop.                                        *)
(***************************************************************************)
Tier1PriorPairs(outfits) == {}

RECURSIVE Tier1Loop(_, _, _, _, _, _, _, _)
Tier1Loop(e, tops, bottoms, base, extra, used_pairs, i, j) ==
  IF i > Len(tops) THEN {extra}
  ELSE IF j > Len(bottoms)
       THEN IF base + Len(extra) >= 3 THEN {extra}
            ELSE Tier1Loop(e, tops, bottoms, base, extra, used_pairs, i + 1, 1)
  ELSE LET t == tops[i]
           b == bottoms[j]
       IN  IF PairName(t, b) \in used_pairs
           THEN Tier1Loop(e, tops, bottoms, base, extra, used_pairs, i, j + 1)
           ELSE UNION {
                  LET ex == Append(extra, Outfit("multi_piece", combo))
                  IN  IF base + Len(ex) >= 3 THEN {ex}
                      ELSE Tier1Loop(e, tops, bottoms, base, ex,
                                     used_pairs \cup {PairName(t, b)}, i, j + 1)
                  : combo \in FallbackCombos(e, t, b)}

Tier1Stage(e, tops, bottoms, outfits) ==
  IF Len(outfits) < 3
  THEN {outfits \o Take(extra, 3 - Len(outfits)) :
          extra \in Tier1Loop(e, tops, bottoms, Len(outfits), <<>>,
                              Tier1PriorPairs(outfits), 1, 1)}
  ELSE {outfits}

\* lines 708-714: random.choice of an empty list raises IndexError
RECURSIVE FinalFallback(_, _, _, _)
FinalFallback(e, tops, bottoms, outfits) ==
  IF Len(outfits) >= 3 THEN {Returned(Take(outfits, 3))}
  ELSE IF tops = <<>> \/ bottoms = <<>> THEN {Raised("IndexError")}
  ELSE UNION {UNION {UNION {
         FinalFallback(e, tops, bottoms, Append(outfits, Outfit("multi_piece", combo)))
         : combo \in FallbackCombos(e, t, b)}
         : b \in SeqRange(bottoms)}
         : t \in SeqRange(tops)}

\* lines 469-680: the outfits composed before the fallback tiers
FilledOutfits(e, tops, bottoms) ==
  LET one_pieces_color == color_matched(e.one_pieces, e.colors, e.avoid)
      tops_color       == color_matched(tops, e.colors, e.avoid)
      bottoms_color    == color_matched(bottoms, e.colors, e.avoid)
      layers_color     == color_matched(e.layers, e.colors, e.avoid)
      s1 == OnePieceStage(e, one_pieces_color, layers_color)
      s2 == UNION {{[outfits |-> o, used |-> s.used]
                    : o \in LayeredStage(e, tops, bottoms, layers_color, s.outfits)}
                   : s \in s1}
      s3 == {LegacySwimStage(e, s.outfits, s.used) : s \in s2}
      s4 == UNION {FillStage(e, tops, bottoms, tops_color, bottoms_color,
                             layers_color, o) : o \in s3}
  IN  s4

DefaultPath(e, tops, bottoms) ==
  UNION {FinalFallback(e, tops, bottoms, o)
         : o \in UNION {Tier1Stage(e, tops, bottoms, filled)
                        : filled \in FilledOutfits(e, tops, bottoms)}}

(***************************************************************************)
(* recommend_outfits after the user check: the set of results the call can *)
(* produce for a profile, a season and a catalog.                          *)
(***************************************************************************)
\* lines 305-311 and 352-361: when every occasion is formal and no ethnic
\* style tag is present, only the items tagged formal are kept
StrictFormal(e) ==
  e.occasions \subseteq FORMAL_OCCASIONS /\ ETHNIC_TAGS \cap e.style_tags = {}

FormalFilter(e, cat_items) ==
  IF StrictFormal(e)
  THEN SelectSeq(cat_items, LAMBDA t : "formal" \in t.tags)
  ELSE cat_items

IsParty(e) == e.occasions \cap {"party", "office party", "beach party"} # {}

\* lines 364-714: the party colour branch, else the default path (over the
\* party pools for a party occasion)
Dressed(e, tops, bottoms) ==
  IF IsParty(e) /\ e.colors # {}
  THEN PartyColorBranch(e, PartyPools(e, tops, bottoms))
  ELSE DefaultPath(e,
         IF IsParty(e) THEN PartyPools(e, tops, bottoms).tops ELSE tops,
         IF IsParty(e) THEN PartyPools(e, tops, bottoms).bottoms ELSE bottoms)

\* the branches with the active test ahead of the swimming test
ComposeFromActiveFirst(e) ==
  IF e.occasions \cap ACTIVE_OCCASIONS # {}
  THEN {ActiveBranch(e)}
  ELSE IF "swimming" \in e.occasions \/ "swimming" \in e.style_tags
  THEN {SwimwearBranch(e.items, e.gender, e.colors, e.avoid)}
  ELSE Dressed(e, FormalFilter(e, e.tops), FormalFilter(e, e.bottoms))

ComposeFrom(e) ==
  IF "swimming" \in e.occasions \/ "swimming" \in e.style_tags
  THEN {SwimwearBranch(e.items, e.gender, e.colors, e.avoid)}
  ELSE IF e.occasions \cap ACTIVE_OCCASIONS # {}
  THEN {ActiveBranch(e)}
  ELSE Dressed(e, FormalFilter(e, e.tops), FormalFilter(e, e.bottoms))

Compose(prompt, profile, context, catalog) ==
  ComposeFrom(Pools(prompt, profile, context, catalog))

(***************************************************************************)
(* The user store (lines 15, 67-86).  sha256 is modelled as an injective   *)
(* tagging of the password.                                                *)
(***************************************************************************)
hash_password(password) == <<"sha256", password>>

authenticate_user(db, username, password) ==
  /\ username \in DOMAIN db
  /\ db[username].password_hash = hash_password(password)

get_user_preferences(db, username) == db[username].preferences

\* the store after register_user succeeded (lines 73-76)
Registered(db, username, password, preferences) ==
  [u \in DOMAIN db \cup {username} |->
     IF u = username
     THEN [password_hash |-> hash_password(password), preferences |-> preferences]
     ELSE db[u]]

\* the store after set_user_preferences (lines 84-86)
WithPreferences(db, username, preferences) ==
  IF username \in DOMAIN db
  THEN [db EXCEPT ![username].preferences = preferences]
  ELSE db

\* get_context (lines 100-106) from the wall clock's hour and month
get_context(hour, month) ==
  [time   |-> IF hour < 12 THEN "morning" ELSE IF hour < 17 THEN "afternoon" ELSE "evening",
   season |-> IF month \in {12, 1, 2} THEN "winter"
              ELSE IF month \in {3, 4, 5} THEN "summer" ELSE "monsoon"]

NoContext == [time |-> "", season |-> ""]

(***************************************************************************)
(* recommend_outfits(prompt, username): the results the call can produce   *)
(* in store db.  A result is                                               *)
(*   [status, user, occasions, context, outfits]                           *)
(* with status "ok" for a returned dict and the exception's name for a     *)
(* raise.  occasions is the set joined into the "occasion" string.         *)
(***************************************************************************)
recommend_outfits(prompt, username, hour, month, db, wardrobe) ==
  IF username \notin DOMAIN db
  THEN {[status |-> "ValueError", user |-> username, occasions |-> {},
         context |-> NoContext, outfits |-> <<>>]}
  ELSE LET profile == get_user_preferences(db, username)
           context == get_context(hour, month)
       IN  {[status |-> o.status, user |-> username,
             occasions |-> Requirements(prompt).occasions,
             context |-> context, outfits |-> o.outfits]
            : o \in Compose(prompt, profile, context, wardrobe)}


(***************************************************************************)
(* Inputs.  A catalog is a list of at most MaxItems items, each of one of  *)
(* ITEM_KINDS, named by its position (names are unique, as the data model  *)
(* requires).  Only the order of items of the same category is read by the *)
(* engine (every pool is a filter of one category), so catalogs list their *)
(* items category by category, in every order within a category.           *)
(***************************************************************************)
MaxItems == 3

NAMES == <<"item1", "item2", "item3", "item4", "item5", "item6">>

Kind(category, tags, age_group, gender) ==
  [category |-> category, tags |-> tags, age_group |-> age_group, gender |-> gender]

ITEM_KINDS ==
  << Kind("topwear",    {"blue", "formal", "gym"},   "all",   "unisex"),
     Kind("topwear",    {"black", "party", "gym"},   "all",   "unisex"),
     Kind("topwear",    {"ethnic"},                  "adult", "male"),
     Kind("bottomwear", {"blue", "formal", "party"}, "all",   "unisex"),
     Kind("bottomwear", {"black", "formal", "gym"},  "all",   "unisex"),
     Kind("bottomwear", {"ethnic", "gym"},           "teen",  "female"),
     Kind("bottomwear", {"traditional"},             "adult", "male"),
     Kind("layer",      {"black"},                   "all",   "unisex"),
     Kind("one-piece",  {"blue", "party"},           "all",   "female"),
     Kind("swimwear",   {"blue"},                    "all",   "unisex"),
     Kind("swimwear",   {"black"},                   "adult", "female") >>

CATEGORY_ORDER == <<"topwear", "bottomwear", "layer", "one-piece", "swimwear">>
CategoryRank(cat) == CHOOSE r \in 1..Len(CATEGORY_ORDER) : CATEGORY_ORDER[r] = cat

KindLists ==
  UNION {{ks \in [1..n -> 1..Len(ITEM_KINDS)] :
            \A k \in 1..(n - 1) :
              CategoryRank(ITEM_KINDS[ks[k]].category)
                <= CategoryRank(ITEM_KINDS[ks[k + 1]].category)}
         : n \in 0..MaxItems}

CatalogOf(ks) ==
  [k \in 1..Len(ks) |->
     [name |-> NAMES[k], category |-> ITEM_KINDS[ks[k]].category,
      tags |-> ITEM_KINDS[ks[k]].tags, age_group |-> ITEM_KINDS[ks[k]].age_group,
      gender |-> ITEM_KINDS[ks[k]].gender]]

CATALOGS == {CatalogOf(ks) : ks \in KindLists}

USERS == {"ana"}
PASSWORDS == {"pw1", "pw2"}
PROFILES ==
  {[age_group |-> "adult", gender |-> "female"], [age_group |-> "adult", gender |-> "male"],
   [age_group |-> "teen", gender |-> "female"],  [age_group |-> "adult", gender |-> "unisex"]}
HOURS == {9}
MONTHS == {1, 7}

(***************************************************************************)
(* State.  USER_DB and wardrobe_db are the program's.  response is what    *)
(* the last operation handed to its caller, until the caller takes it: the *)
(* operation and its arguments, the calls it made in order, the engine's   *)
(* result when the engine was called, and the page of the web handler.     *)
(* Operations do not overlap.                                              *)
(***************************************************************************)
VARIABLES USER_DB, wardrobe_db, response

vars == <<USER_DB, wardrobe_db, response>>

NotRun == [status |-> "not run", user |-> "", occasions |-> {},
           context |-> NoContext, outfits |-> <<>>]

Call(fn, username, returned) == [fn |-> fn, username |-> username, returned |-> returned]

Response(op, username, password, prompt, calls, result, page) ==
  [op |-> op, username |-> username, password |-> password, prompt |-> prompt,
   calls |-> calls, result |-> result, page |-> page]

Idle == Response("none", "", "", "", <<>>, NotRun, "")

EmptyStore == [u \in {} |-> 0]

Init ==
  /\ USER_DB = EmptyStore
  /\ wardrobe_db \in CATALOGS
  /\ response = Idle

\* register_user without the test for an existing username
register_user_overwriting(username, password, preferences) ==
  /\ response = Idle
  /\ USER_DB' = Registered(USER_DB, username, password, preferences)
  /\ response' = Response("register_user", username, password, "",
                   <<Call("register_user", username, "None")>>, NotRun, "")
  /\ UNCHANGED wardrobe_db

\* register_user (lines 70-76)
register_user(username, password, preferences) ==
  /\ response = Idle
  /\ IF username \in DOMAIN USER_DB
     THEN /\ response' = Response("register_user", username, password, "",
                           <<Call("register_user", username, "ValueError")>>, NotRun, "")
          /\ UNCHANGED USER_DB
     ELSE /\ USER_DB' = Registered(USER_DB, username, password, preferences)
          /\ response' = Response("register_user", username, password, "",
                           <<Call("register_user", username, "None")>>, NotRun, "")
  /\ UNCHANGED wardrobe_db

\* set_user_preferences (lines 84-86)
set_user_preferences(username, preferences) ==
  /\ response = Idle
  /\ USER_DB' = WithPreferences(USER_DB, username, preferences)
  /\ response' = Response("set_user_preferences", username, "", "",
                   <<Call("set_user_preferences", username, "None")>>, NotRun, "")
  /\ UNCHANGED wardrobe_db

\* a call of the engine that takes the last item out of the catalog
RecommendCallConsuming(prompt, username, hour, month) ==
  /\ response = Idle
  /\ \E r \in recommend_outfits(prompt, username, hour, month, USER_DB, wardrobe_db) :
       response' = Response("recommend_outfits", username, "", prompt,
                     <<Call("recommend_outfits", username, r.status)>>, r, "")
  /\ wardrobe_db' = SubSeq(wardrobe_db, 1, Len(wardrobe_db) - 1)
  /\ UNCHANGED USER_DB

\* a direct call of the engine, as the terminal entry makes it (line 881)
RecommendCall(prompt, username, hour, month) ==
  /\ response = Idle
  /\ \E r \in recommend_outfits(prompt, username, hour, month, USER_DB, wardrobe_db) :
       response' = Response("recommend_outfits", username, "", prompt,
                     <<Call("recommend_outfits", username, r.status)>>, r, "")
  /\ UNCHANGED <<USER_DB, wardrobe_db>>

\* the terminal loop (lines 866-889) asks again: the same user and prompt,
\* the clock read anew
RepeatCall(hour, month) ==
  /\ response.op = "recommend_outfits"
  /\ \E r \in recommend_outfits(response.prompt, response.username, hour, month,
                                USER_DB, wardrobe_db) :
       response' = Response("recommend_outfits", response.username, "", response.prompt,
                     <<Call("recommend_outfits", response.username, r.status)>>, r, "")
  /\ UNCHANGED <<USER_DB, wardrobe_db>>

(***************************************************************************)
(* The web handler get_recommendation (src/app.py, lines 78-105).          *)
(***************************************************************************)
\* lines 86-95: register_user, and set_user_preferences when it raised
StoreAfterRegistration(db, username, password, preferences) ==
  IF username \in DOMAIN db
  THEN WithPreferences(db, username, preferences)
  ELSE Registered(db, username, password, preferences)

RegistrationCalls(db, username) ==
  IF username \in DOMAIN db
  THEN <<Call("register_user", username, "ValueError"),
         Call("set_user_preferences", username, "None")>>
  ELSE <<Call("register_user", username, "None")>>

\* the handler going on to the engine whatever authenticate_user returned
ServeUnchecked(db, catalog, username, password, prompt, hour, month) ==
  {[calls |-> <<Call("authenticate_user", username,
                     IF authenticate_user(db, username, password) THEN "True" ELSE "False"),
                Call("recommend_outfits", username, r.status)>>,
    result |-> r,
    page |-> IF r.status = "ok" THEN "result" ELSE "Error 500"]
   : r \in recommend_outfits(prompt, username, hour, month, db, catalog)}

\* lines 97-105: the credential check, then the engine inside try/except
Serve(db, catalog, username, password, prompt, hour, month) ==
  IF ~authenticate_user(db, username, password)
  THEN {[calls |-> <<Call("authenticate_user", username, "False")>>,
         result |-> NotRun, page |-> "Invalid credentials"]}
  ELSE {[calls |-> <<Call("authenticate_user", username, "True"),
                     Call("recommend_outfits", username, r.status)>>,
         result |-> r,
         page |-> IF r.status = "ok" THEN "result" ELSE "Error 500"]
        : r \in recommend_outfits(prompt, username, hour, month, db, catalog)}

get_recommendation(username, password, gender, age_group, prompt, hour, month) ==
  /\ response = Idle
  /\ USER_DB' = StoreAfterRegistration(USER_DB, username, password,
                  [age_group |-> age_group, gender |-> gender])
  /\ \E s \in Serve(USER_DB', wardrobe_db, username, password, prompt, hour, month) :
       response' = Response("get_recommendation", username, password, prompt,
                     RegistrationCalls(USER_DB, username) \o s.calls, s.result, s.page)
  /\ UNCHANGED wardrobe_db

\* the caller takes the response
Deliver ==
  /\ response # Idle
  /\ response' = Idle
  /\ UNCHANGED <<USER_DB, wardrobe_db>>

Next ==
  \/ \E u \in USERS, pw \in PASSWORDS, pf \in PROFILES : register_user(u, pw, pf)
  \/ \E u \in USERS, pf \in PROFILES : set_user_preferences(u, pf)
  \/ \E p \in PROMPTS, u \in USERS, h \in HOURS, m \in MONTHS : RecommendCall(p, u, h, m)
  \/ \E h \in HOURS, m \in MONTHS : RepeatCall(h, m)
  \/ \E u \in USERS, pw \in PASSWORDS, pf \in PROFILES, p \in WEB_PROMPTS,
        h \in HOURS, m \in MONTHS :
       get_recommendation(u, pw, pf.gender, pf.age_group, p, h, m)
  \/ Deliver

Spec == Init /\ [][Next]_vars

(***************************************************************************)
(* Vocabulary of the properties: what the last call was asked, for whom,   *)
(* and what it returned.                                                   *)
(***************************************************************************)
EngineCalled ==
  /\ response.op \in {"recommend_outfits", "get_recommendation"}
  /\ response.result # NotRun

EngineReturned == EngineCalled /\ response.result.status = "ok"

Asked == Requirements(response.prompt)

CallerProfile == get_user_preferences(USER_DB, response.username)

ReturnedOutfits == SeqRange(response.result.outfits)

ReturnedItems == UNION {SeqRange(o.items) : o \in ReturnedOutfits}

EligibleFor(item, profile) ==
  /\ item.age_group \in {"all", profile.age_group}
  /\ item.gender \in {"unisex", profile.gender}

EligibleItems == {i \in SeqRange(wardrobe_db) : EligibleFor(i, CallerProfile)}

\* some colour tag of the item is within the match threshold of one of the colours
NearColour(item, colours) ==
  \E tag \in item.tags \cap color_terms : \E c \in colours :
    _color_distance(tag, c) < COLOR_THRESHOLD

SwimmingAsked ==
  "swimming" \in Asked.occasions \/ "swimming" \in StyleTags(Asked.occasions)

(***************************************************************************)
(* C1: every recommend_outfits call that returns a result returns exactly  *)
(* 3 outfits, whichever branch composed them.                              *)
(***************************************************************************)
C1_ExactlyThreeOutfits ==
  EngineReturned => Len(response.result.outfits) = 3

(***************************************************************************)
(* C2: a recommend_outfits call for a registered user never raises because *)
(* a candidate set is empty: it returns a result.                          *)
(***************************************************************************)
C2_NeverRaisesOnEmptyCandidates ==
  (EngineCalled /\ response.username \in DOMAIN USER_DB)
    => response.result.status = "ok"

(***************************************************************************)
(* C3: no returned outfit has type none unless the profile-eligible        *)
(* catalog has no topwear, bottomwear, swimwear or one-piece item at all.  *)
(***************************************************************************)
C3_NoNoneOutfitUnlessAllEmpty ==
  (/\ EngineReturned
   /\ \E i \in EligibleItems :
        i.category \in {"topwear", "bottomwear", "swimwear", "one-piece", "one_piece"})
    => \A o \in ReturnedOutfits : o.type # "none"

(***************************************************************************)
(* C4: when the prompt forbids colours, no returned item has a colour tag  *)
(* within the match threshold of a forbidden colour.                       *)
(***************************************************************************)
C4_NoForbiddenColourReturned ==
  (EngineReturned /\ Asked.avoid # {})
    => \A i \in ReturnedItems : ~NearColour(i, Asked.avoid)

(***************************************************************************)
(* C5: every item of every returned outfit is eligible for the caller's    *)
(* profile: age_group all or the profile's, gender unisex or the profile's.*)
(***************************************************************************)
C5_ReturnedItemsEligible ==
  EngineReturned => \A i \in ReturnedItems : EligibleFor(i, CallerProfile)

\* a result with items was returned from a catalog holding an item of the
\* category of a returned item that the caller's profile excludes
C5_Witness ==
  /\ EngineReturned
  /\ \E i \in ReturnedItems : \E x \in SeqRange(wardrobe_db) :
       x.category = i.category /\ ~EligibleFor(x, CallerProfile)

(***************************************************************************)
(* C6: when the prompt requests colours and an eligible item colour-       *)
(* matches, some returned outfit contains an item matching a requested     *)
(* colour.                                                                 *)
(***************************************************************************)
C6_ColourMatchReturned ==
  (/\ EngineReturned
   /\ Asked.colors # {}
   /\ \E i \in EligibleItems : _color_match(i.tags, Asked.colors, Asked.avoid))
    => \E i \in ReturnedItems : NearColour(i, Asked.colors)

(***************************************************************************)
(* C7: no returned outfit contains two items with the same name (catalog   *)
(* names are unique).                                                      *)
(***************************************************************************)
C7_NoDuplicateNames ==
  EngineReturned =>
    \A o \in ReturnedOutfits : Cardinality(Names(o.items)) = Len(o.items)

\* a returned outfit of three items, the third chosen among the layers
C7_Witness ==
  /\ EngineReturned
  /\ \E o \in ReturnedOutfits : Len(o.items) = 3 /\ o.items[3].category = "layer"

(***************************************************************************)
(* C8: when swimming is asked and some swimwear is eligible for the        *)
(* profile, every returned outfit has type swimwear and exactly one item.  *)
(***************************************************************************)
C8_SwimmingOnlySwimwear ==
  (/\ EngineReturned
   /\ SwimmingAsked
   /\ \E i \in EligibleItems : i.category = "swimwear")
    => \A o \in ReturnedOutfits : o.type = "swimwear" /\ Len(o.items) = 1

(***************************************************************************)
(* C9: for an active occasion (gym, hiking, trekking, yoga, exercise,      *)
(* camping) without swimming, when eligible tops and bottoms carrying a    *)
(* style tag or an active-occasion tag exist, every returned outfit is a   *)
(* multi_piece of such a top and such a bottom, and the outfits cycle      *)
(* through the pairs in catalog order, repeating when there are fewer than *)
(* 3.                                                                      *)
(***************************************************************************)
ActiveAsked == Asked.occasions \cap ACTIVE_OCCASIONS # {} /\ ~SwimmingAsked

RelevantTags == StyleTags(Asked.occasions) \cup ACTIVE_OCCASIONS

Position(item) == CHOOSE k \in 1..Len(wardrobe_db) : wardrobe_db[k] = item

PairBefore(o1, o2) ==
  \/ Position(o1.items[1]) < Position(o2.items[1])
  \/ /\ Position(o1.items[1]) = Position(o2.items[1])
     /\ Position(o1.items[2]) < Position(o2.items[2])

C9_ActiveOutfitsRelevantAndCycled ==
  (/\ EngineReturned
   /\ ActiveAsked
   /\ \E i \in EligibleItems : i.category = "topwear" /\ HasTagIn(i, RelevantTags)
   /\ \E i \in EligibleItems : i.category = "bottomwear" /\ HasTagIn(i, RelevantTags))
    => LET outs == response.result.outfits
           n    == Cardinality(SeqRange(outs))
       IN  /\ \A o \in SeqRange(outs) :
                /\ o.type = "multi_piece"
                /\ Len(o.items) = 2
                /\ o.items[1].category = "topwear" /\ HasTagIn(o.items[1], RelevantTags)
                /\ o.items[2].category = "bottomwear" /\ HasTagIn(o.items[2], RelevantTags)
           /\ \A k \in 1..Len(outs) : k > n => outs[k] = outs[k - n]
           /\ \A k \in 1..Len(outs) : (k > 1 /\ k <= n) => PairBefore(outs[k - 1], outs[k])

\* an active prompt answered from exactly two relevant pairs: the third
\* outfit repeats the first
C9_Witness ==
  /\ EngineReturned
  /\ ActiveAsked
  /\ Len(response.result.outfits) = 3
  /\ Cardinality(ReturnedOutfits) = 2
  /\ response.result.outfits[3] = response.result.outfits[1]

(***************************************************************************)
(* C10: the engine never runs for an unauthenticated caller: a             *)
(* recommend_outfits call for a username that is not in the user store     *)
(* raises before doing any work, and the web handler calls                 *)
(* recommend_outfits only after authenticate_user returned true for the    *)
(* submitted username and password.                                        *)
(***************************************************************************)
C10_EngineOnlyForAuthenticated ==
  /\ (response.op = "recommend_outfits" /\ response.username \notin DOMAIN USER_DB)
       => /\ response.result.status = "ValueError"
          /\ response.result.outfits = <<>>
  /\ response.op = "get_recommendation"
       => /\ \A k \in 1..Len(response.calls) :
               response.calls[k].fn = "recommend_outfits"
                 => /\ \E j \in 1..(k - 1) :
                         response.calls[j]
                           = Call("authenticate_user", response.username, "True")
                    /\ authenticate_user(USER_DB, response.username, response.password)
          /\ ~authenticate_user(USER_DB, response.username, response.password)
               => response.result = NotRun

\* the handler answered a known user who submitted a wrong password
C10_Witness ==
  /\ response.op = "get_recommendation"
  /\ response.username \in DOMAIN USER_DB
  /\ ~authenticate_user(USER_DB, response.username, response.password)
  /\ response.page = "Invalid credentials"

(***************************************************************************)
(* C11: register_user for a username that is already in the user store     *)
(* fails with an error and leaves the store unchanged (same password hash  *)
(* and preferences for every user), whatever operations came before.       *)
(***************************************************************************)
C11_DuplicateRegisterFailsStoreUnchanged ==
  [][(/\ response'.op = "register_user"
      /\ response'.username \in DOMAIN USER_DB)
       => /\ response'.calls = <<Call("register_user", response'.username, "ValueError")>>
          /\ USER_DB' = USER_DB]_vars

\* a register_user call for a user already in the store has raised
C11_Witness ==
  /\ response.op = "register_user"
  /\ response.calls[1].returned = "ValueError"
  /\ response.username \in DOMAIN USER_DB

(***************************************************************************)
(* C12: two recommend_outfits calls with the same prompt, profile and      *)
(* catalog that make the same random choices return the same result (same  *)
(* outfits in the same order, same occasions, same context).  The engine   *)
(* is the set of results the random choices can produce, so the property   *)
(* reads: what the first call returned is a result the repeated call       *)
(* returns when it chooses as the first did.                               *)
(***************************************************************************)
RepeatedCall ==
  /\ response.op = "recommend_outfits"
  /\ response'.op = "recommend_outfits"
  /\ response'.prompt = response.prompt
  /\ response'.username = response.username
  /\ USER_DB' = USER_DB
  /\ wardrobe_db' = wardrobe_db

C12_SameInputsSameResult ==
  [][(RepeatedCall /\ response.result.status = "ok")
       => \E h \in HOURS, m \in MONTHS :
            /\ get_context(h, m) = response'.result.context
            /\ response.result \in recommend_outfits(response.prompt, response.username,
                                                     h, m, USER_DB, wardrobe_db)]_vars

(***************************************************************************)
(* C13: for the prompt "formal interview in blue, avoid black", an         *)
(* adult/female caller and a catalog holding a blue formal top, a blue     *)
(* formal bottom and a black formal bottom, no returned outfit contains    *)
(* the black bottom and at least one returned outfit pairs the blue top    *)
(* with the blue bottom, whatever the random choices and the season.       *)
(***************************************************************************)
FormalItem(item, category, colour) ==
  /\ item.category = category
  /\ {colour, "formal"} \subseteq item.tags

FormalInterviewScenario ==
  /\ EngineCalled
  /\ response.prompt = "formal interview in blue, avoid black"
  /\ response.username \in DOMAIN USER_DB
  /\ CallerProfile = [age_group |-> "adult", gender |-> "female"]
  /\ \E i \in EligibleItems : FormalItem(i, "topwear", "blue")
  /\ \E i \in EligibleItems : FormalItem(i, "bottomwear", "blue")
  /\ \E i \in EligibleItems : FormalItem(i, "bottomwear", "black")

EthnicDayScenario ==
  /\ EngineCalled
  /\ response.prompt = "ethnic day"
  /\ response.username \in DOMAIN USER_DB
  /\ CallerProfile = [age_group |-> "adult", gender |-> "male"]
  /\ \E i \in EligibleItems : i.category = "topwear" /\ HasTagIn(i, ETHNIC_TAGS)
  /\ \E i \in EligibleItems : i.category = "bottomwear" /\ HasTagIn(i, ETHNIC_TAGS)

C14_EthnicDayOnlyEthnic ==
  EthnicDayScenario
    => /\ response.result.status = "ok"
       /\ \A i \in ReturnedItems :
            i.category \in {"topwear", "bottomwear"} => HasTagIn(i, ETHNIC_TAGS)

C14_Witness ==
  /\ EthnicDayScenario
  /\ response.result.status = "ok"
  /\ \E i \in EligibleItems : i.category = "topwear" /\ ~HasTagIn(i, ETHNIC_TAGS)
  /\ \E i \in ReturnedItems : i.category = "bottomwear"

(***************************************************************************)
(* C15: when the default path (or a narrowed formal or party path)         *)
(* under-produces, fallback tier 1 only adds top+bottom outfits whose (top *)
(* name, bottom name) pair is not the pair of an outfit emitted earlier in *)
(* the same call.                                                          *)
(***************************************************************************)
\* the pools of the call that the state's response answers
CallPools ==
  Pools(response.prompt, CallerProfile, response.result.context, wardrobe_db)

Swimming(e) == "swimming" \in e.occasions \/ "swimming" \in e.style_tags

Active(e) == e.occasions \cap ACTIVE_OCCASIONS # {}

\* the call reaches the fallback tiers of lines 672-714
RunsDefaultPath(e) ==
  /\ ~Swimming(e)
  /\ ~Active(e)
  /\ ~(IsParty(e) /\ e.colors # {})

\* the tops and bottoms the default path composes from
PathTops(e) ==
  IF IsParty(e)
  THEN PartyPools(e, FormalFilter(e, e.tops), FormalFilter(e, e.bottoms)).tops
  ELSE FormalFilter(e, e.tops)

PathBottoms(e) ==
  IF IsParty(e)
  THEN PartyPools(e, FormalFilter(e, e.tops), FormalFilter(e, e.bottoms)).bottoms
  ELSE FormalFilter(e, e.bottoms)

\* the (top name, bottom name) pair of an outfit; <<>> for an outfit without one
OutfitPair(outfit) ==
  IF /\ Len(outfit.items) >= 2
     /\ outfit.items[1].category = "topwear"
     /\ outfit.items[2].category = "bottomwear"
  THEN PairName(outfit.items[1], outfit.items[2])
  ELSE <<>>

Tier1AddsOnlyNew(e, tops, bottoms) ==
  \A filled \in FilledOutfits(e, tops, bottoms) :
    \A outfits \in Tier1Stage(e, tops, bottoms, filled) :
      \A k \in (Len(filled) + 1)..Len(outfits) :
        OutfitPair(outfits[k]) \notin {OutfitPair(filled[j]) : j \in 1..Len(filled)}

C15_Tier1AddsOnlyNewPairs ==
  (/\ EngineCalled
   /\ response.username \in DOMAIN USER_DB
   /\ RunsDefaultPath(CallPools))
    => Tier1AddsOnlyNew(CallPools, PathTops(CallPools), PathBottoms(CallPools))

(***************************************************************************)
(* C16: the composition strategy is chosen by fixed priority and exactly   *)
(* one strategy produces the returned outfits: swimwear-only whenever      *)
(* "swimming" is in the occasions or style tags (even with an active or    *)
(* party occasion present); else active for an active occasion; else       *)
(* strict formal when every occasion is office, business meeting or        *)
(* interview and no ethnic or traditional style tag is present; else party *)
(* for a party occasion; else default.  The strict-formal and the party    *)
(* trigger never hold in the same call.                                    *)
(***************************************************************************)
Strategy(e) ==
  IF Swimming(e) THEN "swimwear"
  ELSE IF Active(e) THEN "active"
  ELSE IF StrictFormal(e) THEN "strict formal"
  ELSE IF IsParty(e) THEN "party"
  ELSE "default"

\* what each strategy, taken alone, can produce
StrategyOutfits(strategy, e) ==
  CASE strategy = "swimwear" -> {SwimwearBranch(e.items, e.gender, e.colors, e.avoid)}
    [] strategy = "active" -> {ActiveBranch(e)}
    [] strategy = "strict formal" ->
         DefaultPath(e, SelectSeq(e.tops, LAMBDA t : "formal" \in t.tags),
                        SelectSeq(e.bottoms, LAMBDA b : "formal" \in b.tags))
    [] strategy = "party" ->
         IF e.colors # {}
         THEN PartyColorBranch(e, PartyPools(e, e.tops, e.bottoms))
         ELSE DefaultPath(e, PartyPools(e, e.tops, e.bottoms).tops,
                             PartyPools(e, e.tops, e.bottoms).bottoms)
    [] strategy = "default" -> DefaultPath(e, e.tops, e.bottoms)

C16_OneStrategyByPriority ==
  (EngineCalled /\ response.username \in DOMAIN USER_DB)
    => /\ [status |-> response.result.status, outfits |-> response.result.outfits]
            \in StrategyOutfits(Strategy(CallPools), CallPools)
       /\ ~(StrictFormal(CallPools) /\ IsParty(CallPools))

C16_Witness ==
  /\ EngineReturned
  /\ Swimming(CallPools) /\ Active(CallPools) /\ IsParty(CallPools)
  /\ \E i \in ReturnedItems : i.category = "swimwear"
  /\ \E i \in EligibleItems : i.category = "topwear"

(***************************************************************************)
(* The helper functions on their own.  _color_match and                    *)
(* extract_prompt_requirements read nothing but their arguments (lines     *)
(* 108-156, 178-193): a state of FunctionSpec is one call of one of them,   *)
(* response holding the arguments and, once the function was applied, what *)
(* it returned.  Tags and colours are drawn from vocabularies holding a    *)
(* colour pair within the threshold (yellow, gold), a pair just beyond it  *)
(* (blue, navy), a colour term without an RGB entry (cream, read as gray), *)
(* a colour word that is no colour term (teal) and a style tag; prompts    *)
(* are phrases of at most MaxWords words.                                  *)
(***************************************************************************)
MaxTags == 2
MaxColours == 2
MaxWords == 2

TAG_VOCABULARY == {"blue", "yellow", "gold", "cream", "formal", "teal"}
COLOUR_VOCABULARY == {"navy", "gold", "gray", "blue", "teal"}
PROMPT_WORDS ==
  {"Walk", "park", "avoid", "cream", "off-white", "mall", "yoga", "ethnic", "swim", "hello",
   "office", "multicultural"}

UpTo(S, n) == {x \in SUBSET S : Cardinality(x) <= n}

RECURSIVE Phrases(_)
Phrases(n) ==
  IF n = 0 THEN {""}
  ELSE Phrases(n - 1)
         \cup {IF p = "" THEN w ELSE p \o " " \o w : p \in Phrases(n - 1), w \in PROMPT_WORDS}

NoRequirements == [colors |-> {}, occasions |-> {}, avoid |-> {}, needs_layer |-> FALSE]

FunctionCall(fn, item_tags, requested_colors, forbidden_colors, prompt) ==
  [op |-> fn, item_tags |-> item_tags, requested_colors |-> requested_colors,
   forbidden_colors |-> forbidden_colors, prompt |-> prompt,
   applied |-> FALSE, matched |-> FALSE, requirements |-> NoRequirements]

FunctionInit ==
  /\ USER_DB = EmptyStore
  /\ wardrobe_db = <<>>
  /\ \/ \E item_tags \in UpTo(TAG_VOCABULARY, MaxTags) :
          \E requested_colors \in UpTo(COLOUR_VOCABULARY, MaxColours) :
            \E forbidden_colors \in UpTo(COLOUR_VOCABULARY, MaxColours) :
              response = FunctionCall("_color_match", item_tags, requested_colors,
                                      forbidden_colors, "")
     \/ \E prompt \in Phrases(MaxWords) :
          response = FunctionCall("extract_prompt_requirements", {}, {}, {}, prompt)

ApplyColorMatch ==
  /\ response.op = "_color_match"
  /\ ~response.applied
  /\ response' = [response EXCEPT
                    !.applied = TRUE,
                    !.matched = _color_match(response.item_tags, response.requested_colors,
                                             response.forbidden_colors)]
  /\ UNCHANGED <<USER_DB, wardrobe_db>>

ApplyExtract ==
  /\ response.op = "extract_prompt_requirements"
  /\ ~response.applied
  /\ response' = [response EXCEPT
                    !.applied = TRUE,
                    !.requirements = extract_prompt_requirements(response.prompt)]
  /\ UNCHANGED <<USER_DB, wardrobe_db>>

FunctionNext == ApplyColorMatch \/ ApplyExtract

FunctionSpec == FunctionInit /\ [][FunctionNext]_vars

ColorMatched == response.op = "_color_match" /\ response.applied

Extracted == response.op = "extract_prompt_requirements" /\ response.applied

(***************************************************************************)
(* C17: _color_match(itemTags, requested, forbidden) equals the reference  *)
(* predicate: false if a colour tag of the item is within the threshold of *)
(* a forbidden colour (even when a requested colour matches too);          *)
(* otherwise, with requested colours, true exactly when a colour tag of    *)
(* the item is within the threshold of a requested colour; otherwise true. *)
(* Tags that are no colour terms never affect the result.                  *)
(***************************************************************************)
Within(tags, colours) ==
  \E tag \in tags \cap color_terms : \E c \in colours :
    _color_distance(tag, c) < COLOR_THRESHOLD

ReferenceMatch(tags, requested, forbidden) ==
  IF Within(tags, forbidden) THEN FALSE
  ELSE IF requested # {} THEN Within(tags, requested)
  ELSE TRUE

C17_ColorMatchIsReference ==
  ColorMatched
    => /\ response.matched = ReferenceMatch(response.item_tags, response.requested_colors,
                                            response.forbidden_colors)
       /\ \A tags \in SUBSET response.item_tags :
            tags \cap color_terms = response.item_tags \cap color_terms
              => response.matched = _color_match(tags, response.requested_colors,
                                                 response.forbidden_colors)

\* a tag is within the threshold of a requested and of a forbidden colour
C17_Witness ==
  /\ ColorMatched
  /\ Within(response.item_tags, response.requested_colors)
  /\ Within(response.item_tags, response.forbidden_colors)
  /\ response.item_tags \ color_terms # {}
  /\ ~response.matched

(***************************************************************************)
(* C18: extract_prompt_requirements never returns an empty occasion list;  *)
(* when no occasion key, synonym or ethnic word is found in the prompt,    *)
(* the occasions are exactly {"casual"} if the prompt contains one of      *)
(* outing, walk, park, shopping, picnic, and exactly {"general"} otherwise. *)
(***************************************************************************)
\* the text the function searches: lower case, swim spellings unified
Searched == NormalizeSwim(Lower(response.prompt))

NothingFound ==
  /\ \A k \in SeqRange(OCCASION_KEYS) : ~Contains(Searched, k)
  /\ \A k \in SeqRange(SYNONYM_KEYS) : \A syn \in OCCASION_SYNONYMS[k] : ~Contains(Searched, syn)
  /\ \A word \in {"ethnic", "traditional", "cultural"} : ~Contains(Searched, word)

C18_OccasionsNeverEmpty ==
  Extracted
    => /\ response.requirements.occasions # {}
       /\ NothingFound
            => response.requirements.occasions =
                 IF \E word \in {"outing", "walk", "park", "shopping", "picnic"} :
                      Contains(Searched, word)
                 THEN {"casual"} ELSE {"general"}

C18_Witness ==
  /\ Extracted
  /\ NothingFound
  /\ response.requirements.occasions = {"general"}
  /\ response.prompt # ""

(***************************************************************************)
(* C19: every near-white synonym that follows an avoid word in the prompt  *)
(* (cream, ivory, beige, offwhite, off-white) appears in the returned      *)
(* forbidden colours as "white"; none of these synonyms, nor a fragment of *)
(* one, appears in the forbidden colours in another form.                  *)
(***************************************************************************)
NEAR_WHITES == {"cream", "ivory", "beige", "offwhite", "off-white"}

\* the near-white synonyms that follow an avoid word of the prompt
AvoidedNearWhites ==
  {s \in NEAR_WHITES :
     \E w \in SeqRange(AVOID_KEYWORDS) : Contains(Lower(response.prompt), w \o " " \o s)}

\* a near-white synonym or a piece of one, other than "white" itself
NearWhiteFragment(word) ==
  /\ word \notin {"", "white"}
  /\ \E s \in NEAR_WHITES : Contains(s, word)

C19_NearWhitesBecomeWhite ==
  Extracted
    => /\ AvoidedNearWhites # {} => "white" \in response.requirements.avoid
       /\ \A a \in response.requirements.avoid : ~NearWhiteFragment(a)

(***************************************************************************)
(* C20: occasion synonym expansion adds both directions over one hop: if   *)
(* the prompt contains an alias of a canonical occasion, both the alias    *)
(* and the canonical occasion are in the returned occasions, and if a      *)
(* matched occasion is listed as an alias of a canonical occasion, both    *)
(* are in the returned occasions.                                          *)
(***************************************************************************)
C20_SynonymsBothDirections ==
  Extracted
    => \A k \in SeqRange(SYNONYM_KEYS) : \A syn \in OCCASION_SYNONYMS[k] :
         /\ Contains(Searched, syn) => {syn, k} \subseteq response.requirements.occasions
         /\ syn \in response.requirements.occasions => k \in response.requirements.occasions

(***************************************************************************)
(* C21: whenever the prompt contains a standalone "ethnic", "traditional"  *)
(* or "cultural" (or an "office ethnic/traditional/cultural" phrase), the  *)
(* returned occasions contain all of "ethnic day", "ethnic" and            *)
(* "traditional" whatever else matched, and a prompt without such a        *)
(* standalone word gets none of them added by this rule; so the strict     *)
(* formal narrowing is not applied in such a call, even when the prompt    *)
(* names office, business meeting or interview.                            *)
(***************************************************************************)
\* word occurs in s as a word of its own
Standalone(s, word) ==
  \E i \in 1..Len(s) :
    /\ StartsAt(s, i, word)
    /\ WordBoundary(s, i)
    /\ WordBoundary(s, i + Len(word))

EthnicWordStandsAlone ==
  \E word \in {"ethnic", "traditional", "cultural"} : Standalone(Searched, word)

FORCED_OCCASIONS == {"ethnic day", "ethnic", "traditional"}

C21_EthnicForcedByStandaloneWord ==
  Extracted
    => /\ EthnicWordStandsAlone
            => /\ FORCED_OCCASIONS \subseteq response.requirements.occasions
               /\ ~(/\ response.requirements.occasions \subseteq FORMAL_OCCASIONS
                    /\ ETHNIC_TAGS \cap StyleTags(response.requirements.occasions) = {})
       /\ ~EthnicWordStandsAlone
            => FORCED_OCCASIONS \cap response.requirements.occasions = {}

(***************************************************************************)
(* C22: a recommend_outfits call, whether it returns or raises, leaves the *)
(* wardrobe catalog unchanged (same items, same fields, same order) and    *)
(* leaves the user store unchanged; nothing but the catalog carries from   *)
(* one call to the next: what a call produces is what a first call on the  *)
(* same store and catalog can produce.                                     *)
(***************************************************************************)
\* the step calls the engine
EngineStep ==
  /\ response' # response
  /\ response'.op \in {"recommend_outfits", "get_recommendation"}
  /\ response'.result # NotRun

\* the store at the time the engine is called: the handler has registered the
\* user or set the preferences before (src/app.py, lines 86-95)
StoreAtEngineCall ==
  IF response'.op = "get_recommendation"
  THEN {StoreAfterRegistration(USER_DB, response'.username, response'.password, pf)
        : pf \in PROFILES}
  ELSE {USER_DB}

C22_EngineLeavesCatalogAndStore ==
  [][EngineStep
       => /\ wardrobe_db' = wardrobe_db
          /\ USER_DB' \in StoreAtEngineCall
          /\ \E h \in HOURS, m \in MONTHS :
               response'.result \in recommend_outfits(response'.prompt, response'.username,
                                                       h, m, USER_DB', wardrobe_db)]_vars

\* a call of a registered user on a non-empty catalog raised
C22_Witness ==
  /\ response.op = "recommend_outfits"
  /\ response.result.status \notin {"ok", "ValueError", "not run"}
  /\ Len(wardrobe_db) > 0
  /\ response.username \in DOMAIN USER_DB

(***************************************************************************)
(* C23: in the web handler, a request for an existing username whose       *)
(* password fails authentication leaves that user's stored preferences     *)
(* (age_group, gender) unchanged.                                          *)
(***************************************************************************)
\* the step is a handler request for a stored user with a password that is
\* not the stored one
FailedLogin ==
  /\ response'.op = "get_recommendation"
  /\ response'.username \in DOMAIN USER_DB
  /\ ~authenticate_user(USER_DB, response'.username, response'.password)

C23_FailedLoginKeepsPreferences ==
  [][FailedLogin
       => get_user_preferences(USER_DB', response'.username)
            = get_user_preferences(USER_DB, response'.username)]_vars

(***************************************************************************)
(* C24: every returned outfit has the shape its type names: a multi_piece  *)
(* outfit is a topwear item, then a bottomwear item, then at most one      *)
(* layer item; a swimwear outfit is exactly one swimwear item; a one_piece *)
(* outfit is one one-piece item followed by at most one layer item and is  *)
(* only returned for a female profile; a none outfit has no items.  So     *)
(* every outfit that is not none holds between 1 and 3 items.              *)
(***************************************************************************)
Categories(outfit) == [k \in 1..Len(outfit.items) |-> outfit.items[k].category]

WellShaped(outfit, profile) ==
  CASE outfit.type = "multi_piece" ->
         Categories(outfit) \in {<<"topwear", "bottomwear">>,
                                 <<"topwear", "bottomwear", "layer">>}
    [] outfit.type = "swimwear" -> Categories(outfit) = <<"swimwear">>
    [] outfit.type = "one_piece" ->
         /\ Categories(outfit) \in {<<"one-piece">>, <<"one-piece", "layer">>,
                                    <<"one_piece">>, <<"one_piece", "layer">>}
         /\ profile.gender = "female"
    [] outfit.type = "none" -> outfit.items = <<>>
    [] OTHER -> FALSE

C24_OutfitsHaveTheShapeOfTheirType ==
  EngineReturned
    => \A o \in ReturnedOutfits :
         /\ WellShaped(o, CallerProfile)
         /\ o.type # "none" => Len(o.items) \in 1..3

\* one result holds a one_piece outfit and a multi_piece outfit
C24_Witness ==
  /\ EngineReturned
  /\ \E o \in ReturnedOutfits : o.type = "one_piece"
  /\ \E o \in ReturnedOutfits : o.type = "multi_piece"

====
